---- MODULE Spec2Model ----
(***************************************************************************)
(* snsm: note catalog, interactive selection session and editor handoff.   *)
(* The model follows the second (current) program text of src/main.go,     *)
(* lines 531-1130.  Go strings are sequences of one-character strings.     *)
(***************************************************************************)
EXTENDS Integers, Sequences, FiniteSets, TLC

(***************************************************************************)
(* String helpers: the strings and unicode functions the program calls.    *)
(***************************************************************************)

\* strings.HasPrefix
HasPrefix(s, p) ==
    /\ Len(p) <= Len(s)
    /\ SubSeq(s, 1, Len(p)) = p

\* strings.HasSuffix
HasSuffix(s, p) ==
    /\ Len(p) <= Len(s)
    /\ SubSeq(s, Len(s) - Len(p) + 1, Len(s)) = p

\* strings.TrimSuffix: removes one trailing occurrence of p, if there is one
TrimSuffix(s, p) ==
    IF HasSuffix(s, p) THEN SubSeq(s, 1, Len(s) - Len(p)) ELSE s

Lowers ==
    <<"a", "b", "c", "d", "e", "f", "g", "h", "i", "j", "k", "l", "m",
      "n", "o", "p", "q", "r", "s", "t", "u", "v", "w", "x", "y", "z">>

Uppers ==
    <<"A", "B", "C", "D", "E", "F", "G", "H", "I", "J", "K", "L", "M",
      "N", "O", "P", "Q", "R", "S", "T", "U", "V", "W", "X", "Y", "Z">>

Digits == {"0", "1", "2", "3", "4", "5", "6", "7", "8", "9"}

IndexIn(alphabet, c) == CHOOSE i \in 1..Len(alphabet) : alphabet[i] = c

IsLower(c) == \E i \in 1..Len(Lowers) : Lowers[i] = c

IsUpper(c) == \E i \in 1..Len(Uppers) : Uppers[i] = c

\* unicode.ToLower on one character
ToLowerChar(c) == IF IsUpper(c) THEN Lowers[IndexIn(Uppers, c)] ELSE c

\* unicode.ToUpper on one character
ToUpperChar(c) == IF IsLower(c) THEN Uppers[IndexIn(Lowers, c)] ELSE c

\* strings.ToLower
ToLower(s) == [i \in 1..Len(s) |-> ToLowerChar(s[i])]

\* unicode.IsSpace, as strings.Fields uses it
IsSpace(c) == c \in {" ", "\n", "\t"}

\* the regexp class \w: letters, digits and underscore
IsWordChar(c) == IsLower(c) \/ IsUpper(c) \/ c \in Digits \/ c = "_"

\* strings.Fields: the maximal runs of non-space characters, in order
RECURSIVE FieldsFrom(_, _, _)
FieldsFrom(s, i, cur) ==
    IF i > Len(s)
    THEN IF cur = <<>> THEN <<>> ELSE <<cur>>
    ELSE IF IsSpace(s[i])
         THEN IF cur = <<>>
              THEN FieldsFrom(s, i + 1, <<>>)
              ELSE <<cur>> \o FieldsFrom(s, i + 1, <<>>)
         ELSE FieldsFrom(s, i + 1, Append(cur, s[i]))

Fields(s) == FieldsFrom(s, 1, <<>>)

\* strings.Join
RECURSIVE Join(_, _)
Join(words, sep) ==
    IF words = <<>> THEN <<>>
    ELSE IF Len(words) = 1 THEN words[1]
    ELSE words[1] \o sep \o Join(Tail(words), sep)

\* index of the last "/" of p, 0 when there is none
RECURSIVE LastSlash(_, _)
LastSlash(p, i) ==
    IF i = 0 THEN 0
    ELSE IF p[i] = "/" THEN i ELSE LastSlash(p, i - 1)

\* filepath.Base on a cleaned path: the text after the last separator
Base(p) == SubSeq(p, LastSlash(p, Len(p)) + 1, Len(p))

\* filepath.Dir on a cleaned path: the text before the last separator
Dir(p) == SubSeq(p, 1, LastSlash(p, Len(p)) - 1)

(***************************************************************************)
(* Literals of the program text.                                           *)
(***************************************************************************)

\* ".md", the note extension (lines 803, 805, 933, 1103)
DotMd == <<".", "m", "d">>

\* "//", the marker of a tag line (line 1115)
TagMarker == <<"/", "/">>

\* expandTilde("~/notes/") after filepath.Join has cleaned it (lines 984, 1068)
NotesDir == <<"/", "n">>

\* the model's stand-in for a non-empty $EDITOR value
EditorProgram == <<"v", "i">>

\* filepath.Join(dir, name) for a clean dir and a clean relative name
JoinPath(dir, name) == dir \o <<"/">> \o name

(***************************************************************************)
(* Pure functions of main.go.                                              *)
(***************************************************************************)

\* the "+" put in front of every word, prefixed or not
PlusWordAlways(word) == <<"+">> \o word

\* a word of formatTagsWithPlus: "+" is added only when it is not there yet
PlusWord(word) == IF HasPrefix(word, <<"+">>) THEN word ELSE <<"+">> \o word

\* formatTagsWithPlus (lines 872-886)
formatTagsWithPlus(tags) ==
    LET words == Fields(tags)
        tagWords == [i \in 1..Len(words) |-> PlusWord(words[i])]
    IN  Join(tagWords, <<" ">>)

\* capitalizeFirstLetter without the upper-casing
capitalizeFirstLetterUnchanged(s) == s

\* capitalizeFirstLetter (lines 889-896)
capitalizeFirstLetter(s) ==
    IF s = <<>> THEN <<>>
    ELSE <<ToUpperChar(s[1])>> \o Tail(s)

\* end of the maximal run of word characters that starts at position i
RECURSIVE WordRunEnd(_, _)
WordRunEnd(line, i) ==
    IF i < Len(line) /\ IsWordChar(line[i + 1])
    THEN WordRunEnd(line, i + 1)
    ELSE i

\* regexp `\+\w+` FindAllString: leftmost, non-overlapping matches from i on
RECURSIVE FindAllTags(_, _)
FindAllTags(line, i) ==
    IF i > Len(line) THEN <<>>
    ELSE IF line[i] = "+" /\ i < Len(line) /\ IsWordChar(line[i + 1])
         THEN LET j == WordRunEnd(line, i + 1)
              IN  <<SubSeq(line, i, j)>> \o FindAllTags(line, j + 1)
         ELSE FindAllTags(line, i + 1)

\* extractTags keeping the first match only (FindString)
extractTagsFirstOnly(line) ==
    IF FindAllTags(line, 1) = <<>> THEN <<>> ELSE FindAllTags(line, 1)[1]

\* extractTags (lines 1079-1089): the matches, "+" included, joined by " "
extractTags(line) == Join(FindAllTags(line, 1), <<" ">>)

\* the normalisation without the TrimSuffix of line 803
NormalizeFilenameNoTrim(filename) == filename \o DotMd

\* the normalisation without the append of line 805
NormalizeFilenameNoAppend(filename) == TrimSuffix(filename, DotMd)

\* the filename normalisation of Update, mode modeInput, "enter" (lines 803-805)
NormalizeFilename(filename) == TrimSuffix(filename, DotMd) \o DotMd

\* the title openInEditor derives from the path (lines 932-935)
TitleOf(fullPath) == capitalizeFirstLetter(TrimSuffix(Base(fullPath), DotMd))

\* the tag line openInEditor writes first (lines 938-942)
TagLine(tags) ==
    IF tags # <<>>
    THEN <<"/", "/", " ">> \o formatTagsWithPlus(tags) \o <<"\n">>
    ELSE <<>>

\* the initial body with the heading written before the tag line
InitialBodyTitleFirst(fullPath, tags) ==
    <<"#", " ">> \o TitleOf(fullPath) \o <<"\n", "\n">> \o TagLine(tags)

\* the bytes openInEditor writes to a new file (lines 931-945)
InitialBody(fullPath, tags) ==
    TagLine(tags) \o <<"#", " ">> \o TitleOf(fullPath) \o <<"\n", "\n">>

\* FilterValue built from the title, the name without ".md"
FilterValueOfTitle(item) ==
    TrimSuffix(item.filename, DotMd) \o <<" ">> \o item.tags

\* noteItem.FilterValue (lines 675-678)
FilterValue(item) == item.filename \o <<" ">> \o item.tags

\* noteItem.Title (lines 681-684)
Title(item) == TrimSuffix(item.filename, DotMd)

(***************************************************************************)
(* The file system the program sees.  fs maps a cleaned absolute path to   *)
(* [isDir, canOpen, content]; a path outside DOMAIN fs does not exist.     *)
(***************************************************************************)

RegularFile(content) == [isDir |-> FALSE, canOpen |-> TRUE, content |-> content]

UnreadableFile == [isDir |-> FALSE, canOpen |-> FALSE, content |-> <<>>]

Directory == [isDir |-> TRUE, canOpen |-> TRUE, content |-> <<>>]

UnlistableDirectory == [isDir |-> TRUE, canOpen |-> FALSE, content |-> <<>>]

\* the byte order of the characters that occur in file names
ByteOrder ==
    <<" ", "%", "+", ".", "/",
      "0", "1", "2", "3", "4", "5", "6", "7", "8", "9">>
    \o Uppers \o <<"_">> \o Lowers

\* a < b as Go compares strings: bytewise, a proper prefix first
RECURSIVE StringLess(_, _)
StringLess(a, b) ==
    IF b = <<>> THEN FALSE
    ELSE IF a = <<>> THEN TRUE
    ELSE IF a[1] = b[1] THEN StringLess(Tail(a), Tail(b))
    ELSE IndexIn(ByteOrder, a[1]) < IndexIn(ByteOrder, b[1])

RECURSIVE SortNames(_)
SortNames(names) ==
    IF names = {} THEN <<>>
    ELSE LET first == CHOOSE x \in names :
                          \A y \in names \ {x} : StringLess(x, y)
         IN  <<first>> \o SortNames(names \ {first})

\* os.ReadDir(dir): the names of the directory's entries, sorted by name
ReadDir(f, dir) ==
    SortNames({Base(p) : p \in {q \in DOMAIN f : q # <<>> /\ Dir(q) = dir}})

\* bufio.Scanner.Scan on a fresh file: FALSE on an empty file
ScanOk(content) == content # <<>>

RECURSIVE LineEnd(_, _)
LineEnd(content, i) ==
    IF i > Len(content) \/ content[i] = "\n" THEN i - 1
    ELSE LineEnd(content, i + 1)

\* bufio.Scanner.Text after the first Scan: the text before the first "\n"
FirstLine(content) == SubSeq(content, 1, LineEnd(content, 1))

\* the condition of line 1103 without the ToLower on the name
IsNoteEntryCaseSensitive(f, dir, name) ==
    /\ ~f[JoinPath(dir, name)].isDir
    /\ ~HasPrefix(name, <<".">>)
    /\ HasSuffix(name, DotMd)

\* the condition of line 1103 on a directory entry
IsNoteEntry(f, dir, name) ==
    /\ ~f[JoinPath(dir, name)].isDir
    /\ ~HasPrefix(name, <<".">>)
    /\ HasSuffix(ToLower(name), DotMd)

\* the tags of a file taken from its first line whatever it starts with
TagsOfFileNoMarker(file) ==
    IF file.canOpen /\ ScanOk(file.content)
    THEN extractTags(FirstLine(file.content))
    ELSE <<>>

\* the tags findMarkdownFiles reads from one qualifying file (lines 1105-1120)
TagsOfFile(file) ==
    IF file.canOpen /\ ScanOk(file.content)
       /\ HasPrefix(FirstLine(file.content), TagMarker)
    THEN extractTags(FirstLine(file.content))
    ELSE <<>>

\* the loop of findMarkdownFiles leaving out a file it cannot open
RECURSIVE NoteItemsSkipUnreadable(_, _, _)
NoteItemsSkipUnreadable(f, dir, names) ==
    IF names = <<>> THEN <<>>
    ELSE LET name == Head(names)
             rest == NoteItemsSkipUnreadable(f, dir, Tail(names))
         IN  IF IsNoteEntry(f, dir, name) /\ f[JoinPath(dir, name)].canOpen
             THEN <<[filename |-> name,
                     tags |-> TagsOfFile(f[JoinPath(dir, name)])]>> \o rest
             ELSE rest

RECURSIVE NoteItems(_, _, _)
NoteItems(f, dir, names) ==
    IF names = <<>> THEN <<>>
    ELSE LET name == Head(names)
             rest == NoteItems(f, dir, Tail(names))
         IN  IF IsNoteEntry(f, dir, name)
             THEN <<[filename |-> name,
                     tags |-> TagsOfFile(f[JoinPath(dir, name)])]>> \o rest
             ELSE rest

\* findMarkdownFiles (lines 1093-1130), for a directory that can be listed
findMarkdownFiles(f, dir) == NoteItems(f, dir, ReadDir(f, dir))

\* whether os.ReadDir(dir) succeeds (line 1096)
CanList(f, dir) == dir \in DOMAIN f /\ f[dir].isDir /\ f[dir].canOpen

\* an os.Stat that always reports an error
StatOkNever(f, path) == FALSE

\* os.Stat(path) returns no error (lines 918, 987)
StatOk(f, path) == path \in DOMAIN f

\* os.Create(path) succeeds: the parent is a directory, path is no directory
CanCreate(f, path) ==
    /\ Dir(path) \in DOMAIN f
    /\ f[Dir(path)].isDir
    /\ (path \in DOMAIN f => ~f[path].isDir)

\* the file system after os.Create(path): the file exists and is empty
AfterCreate(f, path) ==
    [q \in DOMAIN f \cup {path} |->
        IF q = path THEN RegularFile(<<>>) ELSE f[q]]

\* the file system after file.WriteString(text) on the open file at path
AfterWrite(f, path, text) ==
    [f EXCEPT ![path] = [@ EXCEPT !.content = @ \o text]]

(***************************************************************************)
(* Bounds and inputs of the model.                                         *)
(***************************************************************************)

\* most text-entry key events (runes appended to a buffer) in one session
MaxTyped == 2

\* the texts a rune key event can carry while the filename is entered
NameChunks ==
    { <<"f", "o", "o">>, <<".", "m", "d">>,
      <<"m", "e", "e", "t", "i", "n", "g">>, <<"d", "/">>, <<"%", "t">> }

\* the texts a rune key event can carry while the tags are entered
TagChunks ==
    { <<"t", "o", "d", "o", " ", "u", "r", "g", "e", "n", "t">>,
      <<" ">>, <<"+", "x">> }

\* the texts a rune key event can carry while the list filter is edited
FilterChunks == { <<"w">>, <<"z">>, <<"m", "d">> }

\* tea.KeyMsg of a named key, and tea.WindowSizeMsg as "resize"
Key(name) == [k |-> name, r |-> <<>>]

\* tea.KeyMsg of type KeyRunes; msg.String() is the text of the runes
Runes(text) == [k |-> "runes", r |-> text]

NoMsg == Key("none")

\* the messages the input modes hand to the text input besides runes
OtherKeys ==
    {Key("ctrl+u"), Key("ctrl+c"), Key("up"), Key("down"), Key("resize")}

\* the directories a run can start from
FooMd == JoinPath(NotesDir, <<"f", "o", "o", ".", "m", "d">>)

BMd == JoinPath(NotesDir, <<"b", ".", "m", "d">>)

UpperMd == JoinPath(NotesDir, <<"C", ".", "M", "D">>)

UMd == JoinPath(NotesDir, <<"u", ".", "m", "d">>)

HiddenMd == JoinPath(NotesDir, <<".", "h", ".", "m", "d">>)

SubDir == JoinPath(NotesDir, <<"d">>)

XTxt == JoinPath(NotesDir, <<"x", ".", "t", "x", "t">>)

FooContent ==
    <<"/", "/", " ", "+", "w", "o", "r", "k", "\n",
      "#", " ", "F", "o", "o", "\n", "\n">>

BContent == <<"#", " ", "B", "\n", "\n">>

UpperContent ==
    <<"/", "/", " ", "+", "g", "o", "l", "a", "n", "g", " ",
      "+", "h", "o", "w", "t", "o", "\n">>

Root == (<<>> :> Directory)

InitialDirs ==
    { Root,
      Root @@ (NotesDir :> UnlistableDirectory),
      Root @@ (NotesDir :> Directory),
      Root @@ (NotesDir :> Directory) @@ (XTxt :> RegularFile(<<"x">>))
           @@ (SubDir :> Directory) @@ (HiddenMd :> RegularFile(FooContent)),
      Root @@ (NotesDir :> Directory) @@ (FooMd :> RegularFile(FooContent))
           @@ (BMd :> RegularFile(BContent)),
      Root @@ (NotesDir :> Directory) @@ (FooMd :> RegularFile(FooContent))
           @@ (UpperMd :> RegularFile(UpperContent)) @@ (UMd :> UnreadableFile)
           @@ (SubDir :> Directory) }

(***************************************************************************)
(* State.                                                                  *)
(***************************************************************************)

\* the modes of line 569-572
modeList == 0

modeInput == 1

modeTagInput == 2

VARIABLES
    pc,          \* where main is: "checkdir", "scan", "session", "result",
                 \* "stat", "create", "write", "exec", "exit"
    exitCode,    \* -1 while running, else the status the process exits with
    fs,          \* the file system
    files,       \* the catalog: files of main, m.items, the list's items
    list,        \* m.list: filterState, filterValue, filtered, cursor
    mode,        \* m.mode
    choice,      \* m.choice
    quitting,    \* m.quitting
    newNoteTags, \* m.newNoteTags
    textInput,   \* m.textInput.Value()
    tagInput,    \* m.tagInput.Value()
    msg,         \* the message Update handled last
    typed,       \* text-entry key events so far
    editor,      \* what os.Getenv("EDITOR") returned
    fileExists,  \* openInEditor's fileExists
    launched     \* the argv of the editor process, <<>> while none was run

vars ==
    <<pc, exitCode, fs, files, list, mode, choice, quitting, newNoteTags,
      textInput, tagInput, msg, typed, editor, fileExists, launched>>

sessionVars ==
    <<list, mode, choice, quitting, newNoteTags, textInput, tagInput>>

handoffVars == <<editor, fileExists, launched>>

(***************************************************************************)
(* The collaborators: bubbles textinput and bubbles list, by the part of   *)
(* their behaviour that Update relies on.                                  *)
(***************************************************************************)

\* textinput.Model.Update: runes are appended, ctrl+u deletes the text
\* before the cursor, every other message leaves the value alone
TextInputUpdate(value, m) ==
    IF m.k = "runes" THEN value \o m.r
    ELSE IF m.k = "ctrl+u" THEN <<>>
    ELSE value

\* a text-entry event stays within the bound on such events
WithinTyped(m) == m.k = "runes" => typed < MaxTyped

\* list.Model of a zero value or right after list.New
NewList ==
    [filterState |-> "unfiltered", filterValue |-> <<>>,
     filtered |-> <<>>, cursor |-> 1]

\* the term's characters occur in the target in order, ignoring case
RECURSIVE FuzzyMatch(_, _)
FuzzyMatch(term, target) ==
    IF term = <<>> THEN TRUE
    ELSE IF target = <<>> THEN FALSE
    ELSE IF ToLowerChar(term[1]) = ToLowerChar(target[1])
         THEN FuzzyMatch(Tail(term), Tail(target))
         ELSE FuzzyMatch(term, Tail(target))

AllItems == [i \in 1..Len(files) |-> i]

Orderings(S) ==
    {f \in [1..Cardinality(S) -> S] : \A x \in S : \E i \in DOMAIN f : f[i] = x}

\* the list's default filter on FilterValue: every item for an empty term,
\* else the matching items, ranked by a score the model leaves open
FilterResults(term) ==
    IF term = <<>> THEN {AllItems}
    ELSE Orderings({i \in 1..Len(files) :
                       FuzzyMatch(term, FilterValue(files[i]))})

\* list.Model.VisibleItems, as indices into the catalog
VisibleItems(l) ==
    IF l.filterState = "unfiltered" THEN AllItems ELSE l.filtered

\* list.Model.SelectedItem returns an item (the type assertion of line 756)
HasSelectedItem(l) == l.cursor <= Len(VisibleItems(l))

\* list.Model.SelectedItem
SelectedItem(l) == files[VisibleItems(l)[l.cursor]]

\* list.Model.SettingFilter
SettingFilter(l) == l.filterState = "filtering"

\* list.Model.Items() != nil: main builds the list only for a non-empty catalog
ItemsNotNil == files # <<>>

\* list.Model.resetFiltering
ResetFiltering(l) ==
    [l EXCEPT !.filterState = "unfiltered", !.filterValue = <<>>,
              !.filtered = <<>>]

Clamp(i, n) == IF i < 1 THEN 1 ELSE IF i > n /\ n >= 1 THEN n ELSE i

\* list.Model.Update while the filter is edited
ListFiltering(l, m) ==
    CASE m.k = "esc" -> {[list |-> ResetFiltering(l), quit |-> FALSE]}
      [] m.k \in {"enter", "up", "down"} ->
            IF VisibleItems(l) = <<>> \/ l.filterValue = <<>>
            THEN {[list |-> ResetFiltering(l), quit |-> FALSE]}
            ELSE {[list |-> [l EXCEPT !.filterState = "applied"],
                   quit |-> FALSE]}
      [] m.k \in {"runes", "ctrl+u"} ->
            LET v == TextInputUpdate(l.filterValue, m)
            IN  {[list |-> [l EXCEPT !.filterValue = v, !.filtered = f,
                                     !.cursor = 1],
                  quit |-> FALSE] : f \in FilterResults(v)}
      [] OTHER -> {[list |-> l, quit |-> FALSE]}

\* list.Model.Update while the list is browsed
ListBrowsing(l, m) ==
    CASE m.k = "esc" ->
            IF l.filterState = "applied"
            THEN {[list |-> ResetFiltering(l), quit |-> FALSE]}
            ELSE {[list |-> l, quit |-> TRUE]}
      [] m.k = "up" ->
            {[list |-> [l EXCEPT !.cursor =
                           Clamp(l.cursor - 1, Len(VisibleItems(l)))],
              quit |-> FALSE]}
      [] m.k = "down" ->
            {[list |-> [l EXCEPT !.cursor =
                           Clamp(l.cursor + 1, Len(VisibleItems(l)))],
              quit |-> FALSE]}
      [] m = Runes(<<"/">>) ->
            {[list |-> [l EXCEPT !.filterState = "filtering",
                                 !.filtered = IF l.filterValue = <<>>
                                              THEN AllItems ELSE l.filtered,
                                 !.cursor = 1],
              quit |-> FALSE]}
      [] OTHER -> {[list |-> l, quit |-> FALSE]}

\* list.Model.Update: the new list and whether the command is tea.Quit
ListUpdate(l, m) ==
    IF SettingFilter(l) THEN ListFiltering(l, m) ELSE ListBrowsing(l, m)

(***************************************************************************)
(* main before the session (lines 982-1055).                               *)
(***************************************************************************)

Init ==
    /\ pc = "checkdir"
    /\ exitCode = -1
    /\ fs \in InitialDirs
    /\ files = <<>>
    /\ list = NewList
    /\ mode = modeList
    /\ choice = <<>>
    /\ quitting = FALSE
    /\ newNoteTags = <<>>
    /\ textInput = <<>>
    /\ tagInput = <<>>
    /\ msg = NoMsg
    /\ typed = 0
    /\ editor = <<>>
    /\ fileExists = FALSE
    /\ launched = <<>>

\* lines 986-1003: a missing notes directory is created when the user agrees
MainCheckDir ==
    /\ pc = "checkdir"
    /\ IF StatOk(fs, NotesDir)
       THEN /\ pc' = "scan"
            /\ UNCHANGED <<fs, exitCode>>
       ELSE \E yes \in BOOLEAN :
              IF yes
              THEN /\ fs' = fs @@ (NotesDir :> Directory)
                   /\ pc' = "scan"
                   /\ UNCHANGED exitCode
              ELSE /\ pc' = "exit"
                   /\ exitCode' = 0
                   /\ UNCHANGED fs
    /\ UNCHANGED <<files, sessionVars, msg, typed, handoffVars>>

\* main without the branch of lines 1013-1016
initialModeAlwaysList(catalog) == modeList

\* initialModel and initialNewNoteModel (lines 701-727), by the mode they set
initialMode(catalog) == IF Len(catalog) = 0 THEN modeInput ELSE modeList

\* lines 1005-1055: the scan, then the model the session starts from
MainScan ==
    /\ pc = "scan"
    /\ IF CanList(fs, NotesDir)
       THEN /\ files' = findMarkdownFiles(fs, NotesDir)
            /\ mode' = initialMode(files')
            /\ pc' = "session"
            /\ UNCHANGED exitCode
       ELSE /\ pc' = "exit"
            /\ exitCode' = 1
            /\ UNCHANGED <<files, mode>>
    /\ UNCHANGED <<fs, list, choice, quitting, newNoteTags, textInput,
                   tagInput, msg, typed, handoffVars>>

(***************************************************************************)
(* model.Update (lines 743-841).  A tea.Quit command ends the session:     *)
(* p.Run returns the model and main goes on at line 1066.                  *)
(*                                                                         *)
(* Every handler takes the place of main it runs at: "session" while no    *)
(* tea.Quit has been returned, "result" once one has.  Spec lets Update    *)
(* run at "session" only: the quit takes effect before any further         *)
(* message.  RaceSpec, further down, also runs it at "result".             *)
(***************************************************************************)

\* the rest of a handler that hands the message to m.list.Update (line 780)
DelegateToListAt(m, at) ==
    /\ (m.k = "runes" /\ SettingFilter(list)) => typed < MaxTyped
    /\ \E r \in ListUpdate(list, m) :
         /\ list' = r.list
         /\ pc' = IF r.quit THEN "result" ELSE at
    /\ typed' = IF m.k = "runes" /\ SettingFilter(list)
                THEN typed + 1 ELSE typed

DelegateToList(m) == DelegateToListAt(m, "session")

\* modeList, "q" or "ctrl+c" (lines 751-753)
ListQuitAt(at) ==
    /\ pc = at /\ mode = modeList
    /\ \E m \in {Runes(<<"q">>), Key("ctrl+c")} : msg' = m
    /\ quitting' = TRUE
    /\ pc' = "result"
    /\ UNCHANGED <<exitCode, fs, files, list, mode, choice, newNoteTags,
                   textInput, tagInput, typed, handoffVars>>

\* ListQuit while the session runs
ListQuit == ListQuitAt("session")

\* modeList, "enter" (lines 755-760, else line 780)
ListEnterAt(at) ==
    /\ pc = at /\ mode = modeList
    /\ msg' = Key("enter")
    /\ IF HasSelectedItem(list)
       THEN /\ choice' = SelectedItem(list).filename
            /\ pc' = "result"
            /\ UNCHANGED <<list, typed>>
       ELSE /\ DelegateToListAt(Key("enter"), at)
            /\ UNCHANGED choice
    /\ UNCHANGED <<exitCode, fs, files, mode, quitting, newNoteTags,
                   textInput, tagInput, handoffVars>>

\* "enter" as the first program text of the file has it (lines 211-216 of
\* the older text): the session quits whether or not an item is selected
ListEnterAlwaysQuit ==
    /\ pc = "session" /\ mode = modeList
    /\ msg' = Key("enter")
    /\ choice' = IF HasSelectedItem(list)
                 THEN SelectedItem(list).filename ELSE choice
    /\ pc' = "result"
    /\ UNCHANGED <<exitCode, fs, files, list, mode, quitting, newNoteTags,
                   textInput, tagInput, typed, handoffVars>>

\* ListEnter while the session runs
ListEnter == ListEnterAt("session")

\* modeList, "n" (lines 762-767, else line 780)
ListNewNoteAt(at) ==
    /\ pc = at /\ mode = modeList
    /\ msg' = Runes(<<"n">>)
    /\ IF ~SettingFilter(list)
       THEN /\ mode' = modeInput
            /\ UNCHANGED <<list, typed, pc>>
       ELSE /\ DelegateToListAt(Runes(<<"n">>), at)
            /\ UNCHANGED mode
    /\ UNCHANGED <<exitCode, fs, files, choice, quitting, newNoteTags,
                   textInput, tagInput, handoffVars>>

\* ListNewNote while the session runs
ListNewNote == ListNewNoteAt("session")

\* modeList, tea.WindowSizeMsg (lines 770-777)
ListResizeAt(at) ==
    /\ pc = at /\ mode = modeList
    /\ msg' = Key("resize")
    /\ UNCHANGED <<pc, exitCode, fs, files, sessionVars, typed, handoffVars>>

\* ListResize while the session runs
ListResize == ListResizeAt("session")

\* modeList, any other key (line 780)
ListOtherAt(at) ==
    /\ pc = at /\ mode = modeList
    /\ \E m \in {Key("esc"), Key("up"), Key("down"), Key("ctrl+u"),
                 Runes(<<"/">>)} \cup {Runes(c) : c \in FilterChunks} :
         /\ msg' = m
         /\ DelegateToListAt(m, at)
    /\ UNCHANGED <<exitCode, fs, files, mode, choice, quitting, newNoteTags,
                   textInput, tagInput, handoffVars>>

\* ListOther while the session runs
ListOther == ListOtherAt("session")

\* modeInput, "esc" (lines 787-796)
InputEscAt(at) ==
    /\ pc = at /\ mode = modeInput
    /\ msg' = Key("esc")
    /\ IF ItemsNotNil
       THEN /\ mode' = modeList
            /\ UNCHANGED <<quitting, pc>>
       ELSE /\ quitting' = TRUE
            /\ pc' = "result"
            /\ UNCHANGED mode
    /\ UNCHANGED <<exitCode, fs, files, list, choice, newNoteTags,
                   textInput, tagInput, typed, handoffVars>>

\* "esc" in modeInput handled like any other key: the prompt stays
InputEscIgnored ==
    /\ pc = "session" /\ mode = modeInput
    /\ msg' = Key("esc")
    /\ UNCHANGED <<pc, exitCode, fs, files, list, mode, choice, quitting,
                   newNoteTags, textInput, tagInput, typed, handoffVars>>

\* InputEsc while the session runs
InputEsc == InputEscAt("session")

\* modeInput, "enter" (lines 798-812, else line 816)
InputEnterAt(at) ==
    /\ pc = at /\ mode = modeInput
    /\ msg' = Key("enter")
    /\ IF textInput # <<>>
       THEN /\ choice' = NormalizeFilename(textInput)
            /\ mode' = modeTagInput
       ELSE UNCHANGED <<choice, mode>>
    /\ textInput' = textInput
    /\ UNCHANGED <<pc, exitCode, fs, files, list, quitting, newNoteTags,
                   tagInput, typed, handoffVars>>

\* "enter" in modeInput that creates the note file at once
InputEnterCreatesFile ==
    /\ pc = "session" /\ mode = modeInput
    /\ msg' = Key("enter")
    /\ IF textInput # <<>>
       THEN /\ choice' = NormalizeFilename(textInput)
            /\ mode' = modeTagInput
            /\ fs' = IF CanCreate(fs, JoinPath(NotesDir, choice'))
                     THEN AfterCreate(fs, JoinPath(NotesDir, choice'))
                     ELSE fs
       ELSE UNCHANGED <<choice, mode, fs>>
    /\ UNCHANGED <<pc, exitCode, files, list, quitting, newNoteTags,
                   textInput, tagInput, typed, handoffVars>>

\* "enter" without the test filename != "" of line 801
InputEnterNoCheck ==
    /\ pc = "session" /\ mode = modeInput
    /\ msg' = Key("enter")
    /\ choice' = NormalizeFilename(textInput)
    /\ mode' = modeTagInput
    /\ UNCHANGED <<pc, exitCode, fs, files, list, quitting, newNoteTags,
                   textInput, tagInput, typed, handoffVars>>

\* InputEnter while the session runs
InputEnter == InputEnterAt("session")

\* modeInput, any other message (line 816)
InputOtherAt(at) ==
    /\ pc = at /\ mode = modeInput
    /\ \E m \in OtherKeys \cup {Runes(c) : c \in NameChunks} :
         /\ WithinTyped(m)
         /\ msg' = m
         /\ textInput' = TextInputUpdate(textInput, m)
         /\ typed' = IF m.k = "runes" THEN typed + 1 ELSE typed
    /\ UNCHANGED <<pc, exitCode, fs, files, list, mode, choice, quitting,
                   newNoteTags, tagInput, handoffVars>>

\* modeInput handling tea.WindowSizeMsg as modeList does, and showing the list
InputOtherResizeToList ==
    /\ pc = "session" /\ mode = modeInput
    /\ \E m \in OtherKeys \cup {Runes(c) : c \in NameChunks} :
         /\ WithinTyped(m)
         /\ msg' = m
         /\ textInput' = TextInputUpdate(textInput, m)
         /\ typed' = IF m.k = "runes" THEN typed + 1 ELSE typed
         /\ mode' = IF m.k = "resize" THEN modeList ELSE mode
    /\ UNCHANGED <<pc, exitCode, fs, files, list, choice, quitting,
                   newNoteTags, tagInput, handoffVars>>

\* InputOther while the session runs
InputOther == InputOtherAt("session")

\* modeTagInput, "esc" (lines 823-827)
TagEscAt(at) ==
    /\ pc = at /\ mode = modeTagInput
    /\ msg' = Key("esc")
    /\ mode' = modeInput
    /\ UNCHANGED <<pc, exitCode, fs, files, list, choice, quitting,
                   newNoteTags, textInput, tagInput, typed, handoffVars>>

\* "esc" in modeTagInput leaving the whole note creation, back to the list
TagEscToList ==
    /\ pc = "session" /\ mode = modeTagInput
    /\ msg' = Key("esc")
    /\ mode' = modeList
    /\ UNCHANGED <<pc, exitCode, fs, files, list, choice, quitting,
                   newNoteTags, textInput, tagInput, typed, handoffVars>>

\* TagEsc while the session runs
TagEsc == TagEscAt("session")

\* modeTagInput, "enter" (lines 829-832)
TagEnterAt(at) ==
    /\ pc = at /\ mode = modeTagInput
    /\ msg' = Key("enter")
    /\ newNoteTags' = tagInput
    /\ pc' = "result"
    /\ UNCHANGED <<exitCode, fs, files, list, mode, choice, quitting,
                   textInput, tagInput, typed, handoffVars>>

\* "enter" in modeTagInput without the assignment of line 830
TagEnterNoTags ==
    /\ pc = "session" /\ mode = modeTagInput
    /\ msg' = Key("enter")
    /\ pc' = "result"
    /\ UNCHANGED <<exitCode, fs, files, list, mode, choice, quitting,
                   newNoteTags, textInput, tagInput, typed, handoffVars>>

\* TagEnter while the session runs
TagEnter == TagEnterAt("session")

\* modeTagInput, any other message (line 836)
TagOtherAt(at) ==
    /\ pc = at /\ mode = modeTagInput
    /\ \E m \in OtherKeys \cup {Runes(c) : c \in TagChunks} :
         /\ WithinTyped(m)
         /\ msg' = m
         /\ tagInput' = TextInputUpdate(tagInput, m)
         /\ typed' = IF m.k = "runes" THEN typed + 1 ELSE typed
    /\ UNCHANGED <<pc, exitCode, fs, files, list, mode, choice, quitting,
                   newNoteTags, textInput, handoffVars>>

\* TagOther while the session runs
TagOther == TagOtherAt("session")

(***************************************************************************)
(* main after the session and openInEditor (lines 1065-1075, 910-957).     *)
(***************************************************************************)

\* line 1068
fullPath == JoinPath(NotesDir, choice)

\* main calling openInEditor with the editor setting tested only at the
\* launch: the file is looked up and created first
MainResultEditorLate ==
    /\ pc = "result"
    /\ IF choice = <<>>
       THEN /\ pc' = "exit"
            /\ exitCode' = 0
            /\ UNCHANGED editor
       ELSE \E e \in {<<>>, EditorProgram} :
              /\ editor' = e
              /\ pc' = "stat"
              /\ UNCHANGED exitCode
    /\ UNCHANGED <<fs, files, sessionVars, msg, typed, fileExists, launched>>

\* line 1066, then lines 911-914: nothing to do without a choice; else the
\* editor setting is read, and its absence is an error
MainResult ==
    /\ pc = "result"
    /\ IF choice = <<>>
       THEN /\ pc' = "exit"
            /\ exitCode' = 0
            /\ UNCHANGED editor
       ELSE \E e \in {<<>>, EditorProgram} :
              /\ editor' = e
              /\ IF e = <<>>
                 THEN pc' = "exit" /\ exitCode' = 1
                 ELSE pc' = "stat" /\ UNCHANGED exitCode
    /\ UNCHANGED <<fs, files, sessionVars, msg, typed, fileExists, launched>>

\* openInEditor without the test of lines 917-924: the file is always created
EditorStatNoCheck ==
    /\ pc = "stat"
    /\ fileExists' = FALSE
    /\ pc' = "create"
    /\ UNCHANGED <<exitCode, fs, files, sessionVars, msg, typed, editor,
                   launched>>

\* lines 916-924
EditorStat ==
    /\ pc = "stat"
    /\ fileExists' = StatOk(fs, fullPath)
    /\ pc' = IF fileExists' THEN "exec" ELSE "create"
    /\ UNCHANGED <<exitCode, fs, files, sessionVars, msg, typed, editor,
                   launched>>

\* lines 926-929
EditorCreate ==
    /\ pc = "create"
    /\ IF CanCreate(fs, fullPath)
       THEN /\ fs' = AfterCreate(fs, fullPath)
            /\ pc' = "write"
            /\ UNCHANGED exitCode
       ELSE /\ pc' = "exit"
            /\ exitCode' = 1
            /\ UNCHANGED fs
    /\ UNCHANGED <<files, sessionVars, msg, typed, handoffVars>>

\* lines 931-947
EditorWrite ==
    /\ pc = "write"
    /\ fs' = AfterWrite(fs, fullPath, InitialBody(fullPath, newNoteTags))
    /\ pc' = "exec"
    /\ UNCHANGED <<exitCode, files, sessionVars, msg, typed, handoffVars>>

\* lines 951-956 and 1071-1074: the editor runs; main exits with its outcome
EditorExec ==
    /\ pc = "exec"
    /\ launched' = <<editor, fullPath>>
    /\ \E ok \in BOOLEAN : exitCode' = IF ok THEN 0 ELSE 1
    /\ pc' = "exit"
    /\ UNCHANGED <<fs, files, sessionVars, msg, typed, editor, fileExists>>

Next ==
    \/ MainCheckDir
    \/ MainScan
    \/ ListQuit
    \/ ListEnter
    \/ ListNewNote
    \/ ListResize
    \/ ListOther
    \/ InputEsc
    \/ InputEnter
    \/ InputOther
    \/ TagEsc
    \/ TagEnter
    \/ TagOther
    \/ MainResult
    \/ EditorStat
    \/ EditorCreate
    \/ EditorWrite
    \/ EditorExec

Spec == Init /\ [][Next]_vars

(***************************************************************************)
(* The selection result, read off the state the session ended in.          *)
(***************************************************************************)

\* p.Run has returned: the session handled a message that issued tea.Quit
SessionOver ==
    /\ pc \in {"result", "stat", "create", "write", "exec", "exit"}
    /\ msg # NoMsg

\* the session ended by quit or cancel: "q", "ctrl+c" or "esc"
ResultCancelled == SessionOver /\ msg # Key("enter")

\* the session ended by "enter" on the highlighted entry of the list
ResultChosen == SessionOver /\ msg = Key("enter") /\ mode = modeList

\* the session ended by "enter" in the tag input
ResultCreated == SessionOver /\ msg = Key("enter") /\ mode = modeTagInput

\* the path main hands to openInEditor
TargetPath == NotesDir \o <<"/">> \o choice

Meeting == <<"m", "e", "e", "t", "i", "n", "g">>

TodoUrgent == <<"t", "o", "d", "o", " ", "u", "r", "g", "e", "n", "t">>

Foo == <<"f", "o", "o">>

(***************************************************************************)
(* Claims.                                                                 *)
(***************************************************************************)

\* C1: once the session has ended by quit or cancel, no step of the handoff
\* creates or writes a file and none launches the editor.
C1_CancelledDoesNothing ==
    [][ResultCancelled => (fs' = fs /\ launched' = <<>>)]_vars

\* C2: before the first message the mode is modeList exactly when the catalog
\* is non-empty and modeInput exactly when it is empty, and with an empty
\* catalog the mode is never modeList while or after the session runs.
C2_InitialMode ==
    (pc = "session" \/ SessionOver) =>
        /\ (msg = NoMsg /\ files # <<>>) => mode = modeList
        /\ (msg = NoMsg /\ files = <<>>) => mode = modeInput
        /\ files = <<>> => mode # modeList

\* C2 witness: an empty catalog, and the session came back from the tag input
C2_Witness ==
    /\ pc = "session" /\ files = <<>>
    /\ mode = modeInput /\ msg = Key("esc") /\ choice # <<>>

\* C3: "enter" in modeList ends the session exactly when an entry is
\* highlighted; the choice is then the file name of the highlighted entry, an
\* entry of the catalog that the current filter text matches.  With nothing
\* highlighted the session goes on in modeList and the choice stays as it was.
C3_ConfirmInBrowsing ==
    [][(pc = "session" /\ mode = modeList /\ msg' = Key("enter")) =>
         IF list.cursor <= Len(VisibleItems(list))
         THEN /\ pc' = "result"
              /\ mode' = modeList
              /\ choice' = files[VisibleItems(list)[list.cursor]].filename
              /\ \E i \in 1..Len(files) :
                   /\ files[i].filename = choice'
                   /\ list.filterState # "unfiltered" =>
                        /\ \E j \in 1..Len(list.filtered) : list.filtered[j] = i
                        /\ FuzzyMatch(list.filterValue, FilterValue(files[i]))
         ELSE /\ pc' = "session"
              /\ mode' = modeList
              /\ choice' = choice]_vars

\* C3 witness: an entry was chosen while a non-empty filter was in force
C3_Witness ==
    /\ ResultChosen /\ pc = "result"
    /\ list.filterState # "unfiltered" /\ list.filterValue # <<>>
    /\ choice # <<>>

\* C4: after a session that ended with an entry chosen, no step changes the
\* file system, and the process exits either without a launch because no
\* editor is configured, or after launching the editor with the chosen
\* entry's path as its only argument.
C4_ChosenOpensUnmodified ==
    /\ [][ResultChosen => fs' = fs]_vars
    /\ [](ResultChosen /\ pc = "exit" =>
            IF editor = <<>>
            THEN launched = <<>> /\ exitCode = 1
            ELSE launched = <<editor, TargetPath>>)

\* C4 witness: the editor was launched on a chosen entry
C4_Witness == ResultChosen /\ pc = "exit" /\ launched # <<>>

\* C5: after a session that ended with a new note's name and tags, a file
\* that exists at the path is never changed: the handoff goes from the
\* existence check straight to the launch, and launches the editor on it.
C5_ExistingFileUntouched ==
    [][(/\ ResultCreated
        /\ \/ fileExists
           \/ pc \in {"result", "stat"} /\ TargetPath \in DOMAIN fs) =>
         /\ fs' = fs
         /\ pc' \notin {"create", "write"}
         /\ pc = "stat" => pc' = "exec"
         /\ pc = "exec" => launched' = <<editor, TargetPath>>]_vars

\* C5 witness: a note was "created" on an existing file, with tag text
C5_Witness ==
    /\ ResultCreated /\ pc = "exit" /\ fileExists
    /\ newNoteTags # <<>> /\ launched # <<>>

\* C6: with an empty catalog, the filename "meeting" and the tag text
\* "todo urgent", the session ends with choice "meeting.md" and tags
\* "todo urgent"; no such file exists before the handoff, and from the moment
\* the editor is about to be launched the file holds exactly
\* "// +todo +urgent\n# Meeting\n\n".
C6_MeetingScenario ==
    (files = <<>> /\ ResultCreated /\ textInput = Meeting
     /\ tagInput = TodoUrgent) =>
        /\ choice = Meeting \o <<".", "m", "d">>
        /\ newNoteTags = TodoUrgent
        /\ pc \in {"result", "stat", "create"} => TargetPath \notin DOMAIN fs
        /\ (pc = "exec" \/ launched # <<>>) =>
             /\ TargetPath \in DOMAIN fs
             /\ fs[TargetPath].content =
                  <<"/", "/", " ", "+", "t", "o", "d", "o", " ",
                    "+", "u", "r", "g", "e", "n", "t", "\n",
                    "#", " ", "M", "e", "e", "t", "i", "n", "g", "\n", "\n">>
        /\ pc = "exit" /\ exitCode = 0 => launched = <<editor, TargetPath>>

\* C6 witness: the scenario ran to the end and the editor was launched
C6_Witness ==
    /\ files = <<>> /\ ResultCreated /\ textInput = Meeting
    /\ tagInput = TodoUrgent /\ pc = "exit" /\ launched # <<>>

\* the heading of a new note: "# ", the base name of the path without its
\* ".md" and with its first character upper-cased, and the end of the line
HeadingLine ==
    LET base == Base(TargetPath)
        stem == IF HasSuffix(base, DotMd)
                THEN SubSeq(base, 1, Len(base) - 3) ELSE base
        title == IF stem = <<>> THEN <<>>
                 ELSE <<ToUpperChar(stem[1])>> \o Tail(stem)
    IN  <<"#", " ">> \o title \o <<"\n">>

\* the encoded tag line of the tag text, ended by one newline
EncodedTagLine ==
    <<"/", "/", " ">> \o formatTagsWithPlus(newNoteTags) \o <<"\n">>

\* a new note has just been written: the file did not exist at the check
NewNoteWritten == ResultCreated /\ ~fileExists /\ pc = "exec"

\* C7 as stated: the body of a new note is the encoded tag line and a blank
\* line when tag text was entered, then the heading, then a blank line.
C7_BodyAsStated ==
    NewNoteWritten =>
        fs[TargetPath].content =
            (IF newNoteTags # <<>>
             THEN EncodedTagLine \o <<"\n">> ELSE <<>>)
            \o HeadingLine \o <<"\n">>

\* C7 amended: the body of a new note is the encoded tag line when the tag
\* text is not the empty string, directly followed (no blank line between)
\* by the heading, then a blank line.
C7_BodyOfNewNote ==
    NewNoteWritten =>
        fs[TargetPath].content =
            (IF newNoteTags # <<>> THEN EncodedTagLine ELSE <<>>)
            \o HeadingLine \o <<"\n">>

\* C7 witness: a new note with tags was written
C7_Witness == NewNoteWritten /\ Fields(newNoteTags) # <<>>

\* s ends in ".md" and the text before that ".md" does not
EndsInOneMd(s) ==
    /\ HasSuffix(s, DotMd)
    /\ ~HasSuffix(SubSeq(s, 1, Len(s) - 3), DotMd)

\* "enter" is handled in modeInput with a non-empty filename buffer
ConfirmsFilename ==
    pc = "session" /\ mode = modeInput /\ textInput # <<>>
    /\ msg' = Key("enter")

\* C8 as stated: "enter" with a non-empty filename moves to modeTagInput and
\* stores the buffer, a trailing ".md" stripped and ".md" appended, as the
\* choice, which ends in exactly one ".md".
C8_PendingPathAsStated ==
    [][ConfirmsFilename =>
         /\ mode' = modeTagInput
         /\ choice' = (IF HasSuffix(textInput, DotMd)
                       THEN SubSeq(textInput, 1, Len(textInput) - 3)
                       ELSE textInput) \o DotMd
         /\ EndsInOneMd(choice')]_vars

\* C8 amended: "enter" with a non-empty filename moves to modeTagInput and
\* stores the buffer, one trailing ".md" stripped and ".md" appended, as the
\* choice; the choice ends in ".md", and in exactly one ".md" unless the
\* buffer itself ended in ".md.md".
C8_PendingPath ==
    [][ConfirmsFilename =>
         /\ mode' = modeTagInput
         /\ choice' = (IF HasSuffix(textInput, DotMd)
                       THEN SubSeq(textInput, 1, Len(textInput) - 3)
                       ELSE textInput) \o DotMd
         /\ HasSuffix(choice', DotMd)
         /\ ~HasSuffix(textInput, DotMd \o DotMd) => EndsInOneMd(choice')]_vars

\* C8 witness: the filename "foo.md" was confirmed and stored as "foo.md"
C8_Witness ==
    /\ pc = "session" /\ mode = modeTagInput /\ msg = Key("enter")
    /\ textInput = Foo \o DotMd /\ choice = Foo \o DotMd

\* C9: normalising a confirmed filename again gives the same path, and the
\* filenames "foo" and "foo.md" are both stored as "foo.md".
C9_NormalizeIdempotent ==
    (pc = "session" /\ mode = modeTagInput) =>
        /\ textInput # <<>>
        /\ NormalizeFilename(choice) = choice
        /\ NormalizeFilename(NormalizeFilename(textInput))
             = NormalizeFilename(textInput)
        /\ textInput \in {Foo, Foo \o <<".", "m", "d">>} =>
             choice = <<"f", "o", "o", ".", "m", "d">>

\* C9 witness: the filename "foo" was confirmed
C9_Witness ==
    /\ pc = "session" /\ mode = modeTagInput /\ msg = Key("enter")
    /\ textInput = Foo

\* C10: "enter" in modeInput with an empty filename buffer changes nothing:
\* the mode stays modeInput, the choice and the buffers keep their values and
\* the session goes on.
C10_EmptyFilenameRejected ==
    [][(pc = "session" /\ mode = modeInput /\ textInput = <<>>
        /\ msg' = Key("enter")) =>
         /\ pc' = "session"
         /\ mode' = modeInput
         /\ choice' = choice
         /\ UNCHANGED <<textInput, tagInput, newNoteTags, quitting, list,
                        files, fs, launched>>]_vars

\* C10 witness: "enter" was handled in modeInput and the mode is still
\* modeInput, with an empty buffer and a choice left from an earlier filename
C10_Witness ==
    /\ pc = "session" /\ mode = modeInput /\ msg = Key("enter")
    /\ textInput = <<>> /\ choice # <<>>

\* C11: "esc" in modeInput moves to modeList when the catalog is non-empty
\* and else ends the session as cancelled; a move to modeList leaves the
\* filename buffer empty, so that a later "n" starts from an empty buffer.
C11_CancelFilename ==
    [][(pc = "session" /\ mode = modeInput /\ msg' = Key("esc")) =>
         IF files # <<>>
         THEN /\ pc' = "session"
              /\ mode' = modeList
              /\ textInput' = <<>>
         ELSE /\ pc' = "result"
              /\ ResultCancelled']_vars

\* C12: "n" in modeList moves to modeInput exactly when the filter is not
\* being edited, and the filename buffer is then empty; while the filter is
\* edited the "n" is appended to the filter text and the mode stays modeList.
C12_NewNoteCommand ==
    [][(pc = "session" /\ mode = modeList /\ msg' = Runes(<<"n">>)) =>
         IF list.filterState = "filtering"
         THEN /\ mode' = modeList
              /\ list'.filterValue = list.filterValue \o <<"n">>
         ELSE /\ mode' = modeInput
              /\ textInput' = <<>>]_vars

\* C13: "enter" in modeTagInput ends the session at once with a created
\* result whose tag text is the tag buffer as typed (empty included) and whose
\* file name is the one stored by the last filename confirmation; the path
\* handed to openInEditor is that name inside the notes directory.
C13_ConfirmTags ==
    /\ [][(pc = "session" /\ mode = modeTagInput /\ msg' = Key("enter")) =>
            /\ pc' = "result"
            /\ ResultCreated'
            /\ newNoteTags' = tagInput
            /\ choice' = choice]_vars
    /\ [][(pc = "session" /\ mode = modeInput /\ mode' = modeTagInput) =>
            /\ msg' = Key("enter")
            /\ fullPath' = JoinPath(NotesDir, NormalizeFilename(textInput))]_vars
    /\ [][(pc = "session" /\ mode = modeTagInput) => choice' = choice]_vars
    /\ [][ResultCreated =>
            /\ newNoteTags' = newNoteTags
            /\ choice' = choice]_vars

C13_Witness ==
    /\ ResultCreated
    /\ pc = "stat"
    /\ newNoteTags = TodoUrgent
    /\ fullPath = JoinPath(NotesDir, Meeting \o DotMd)

\* C14: "esc" in modeTagInput always moves to modeInput, with the session
\* still running, and nothing done in modeTagInput changes the filename
\* buffer: it holds the text it held when the filename was confirmed.
C14_CancelTags ==
    /\ [][(pc = "session" /\ mode = modeTagInput /\ msg' = Key("esc")) =>
            /\ pc' = "session"
            /\ mode' = modeInput]_vars
    /\ [][(pc = "session" /\ mode = modeTagInput) =>
            textInput' = textInput]_vars
    /\ [][(pc = "session" /\ mode = modeInput /\ mode' = modeTagInput) =>
            textInput' = textInput]_vars

C14_Witness ==
    /\ pc = "session"
    /\ mode = modeInput
    /\ msg = Key("esc")
    /\ textInput = Meeting
    /\ tagInput = TodoUrgent

(***************************************************************************)
(* The session with a user who keeps pressing "esc": whenever the "esc"    *)
(* branch of modeTagInput or of modeInput can be taken again and again, it *)
(* is eventually taken.                                                    *)
(***************************************************************************)
CancelSpec == Spec /\ SF_vars(TagEsc) /\ SF_vars(InputEsc)

\* C15: from every state of a running session, a user who keeps pressing
\* "esc" eventually has the list in front of them or the session is over: no
\* input mode holds the user for ever.
C15_CancelReachesList ==
    [](pc = "session" => <>(mode = modeList \/ pc # "session"))

C15_Witness ==
    /\ pc = "session"
    /\ mode = modeList
    /\ msg = Key("esc")
    /\ choice # <<>>
    /\ tagInput # <<>>

(***************************************************************************)
(* openInEditor on its own, for any tag text: main just after a session    *)
(* that created the note foo.md in an empty notes directory (lines         *)
(* 1065-1075), with the tag text drawn from all short texts over a small   *)
(* alphabet of word characters, "+", a space and a character that is       *)
(* neither.                                                                *)
(***************************************************************************)
MaxPhrase == 4

TagAlphabet == {"a", "1", "+", " ", "-"}

Phrases == UNION {[1..n -> TagAlphabet] : n \in 0..MaxPhrase}

EmptyNotesDir == (NotesDir :> Directory) @@ Root

CreatedInit ==
    /\ pc = "result"
    /\ exitCode = -1
    /\ fs = EmptyNotesDir
    /\ files = <<>>
    /\ list = NewList
    /\ mode = modeTagInput
    /\ choice = NormalizeFilename(Foo)
    /\ quitting = FALSE
    /\ newNoteTags \in Phrases
    /\ textInput = Foo
    /\ tagInput = newNoteTags
    /\ msg = Key("enter")
    /\ typed = 0
    /\ editor = <<>>
    /\ fileExists = FALSE
    /\ launched = <<>>

CreatedNext ==
    \/ MainResult
    \/ EditorStat
    \/ EditorCreate
    \/ EditorWrite
    \/ EditorExec

CreatedSpec == CreatedInit /\ [][CreatedNext]_vars

\* C16: formatTagsWithPlus keeps the words of the tag text in order, leaves a
\* word that starts with "+" as it is, puts one "+" before any other word,
\* joins them by single spaces, and maps its own output to itself; the tag
\* line written to a new note is "// " followed by that text.
C16_EncodeWords ==
    LET words == Fields(newNoteTags)
        out == formatTagsWithPlus(newNoteTags)
        outWords == Fields(out)
    IN  /\ Len(outWords) = Len(words)
        /\ \A i \in 1..Len(words) :
             outWords[i] = IF words[i][1] = "+"
                           THEN words[i] ELSE <<"+">> \o words[i]
        /\ out = Join(outWords, <<" ">>)
        /\ formatTagsWithPlus(out) = out
        /\ (NewNoteWritten /\ newNoteTags # <<>>) =>
             FirstLine(fs[TargetPath].content) = <<"/", "/", " ">> \o out

C16_Witness ==
    /\ NewNoteWritten
    /\ newNoteTags = <<"+", "a", " ", "1">>
    /\ FirstLine(fs[TargetPath].content) =
         <<"/", "/", " ", "+", "a", " ", "+", "1">>

\* C17: a new note whose tag text is empty or holds only white space gets no
\* tag line: the first line of the file is the heading.
C17_NoTagLineForBlankTags ==
    (NewNoteWritten /\ Fields(newNoteTags) = <<>>) =>
        FirstLine(fs[TargetPath].content) \o <<"\n">> = HeadingLine

(***************************************************************************)
(* The start of main up to the scan (lines 982-1009), for every notes      *)
(* directory made of a subset of a pool of entries: notes with and without *)
(* a tag line, an empty note, a note whose first line is empty, an         *)
(* unreadable note, and entries the scan leaves out.                       *)
(***************************************************************************)
EMd == JoinPath(NotesDir, <<"e", ".", "m", "d">>)

LMd == JoinPath(NotesDir, <<"l", ".", "m", "d">>)

PMd == JoinPath(NotesDir, <<"p", ".", "m", "d">>)

TMd == JoinPath(NotesDir, <<"t", ".", "m", "d">>)

\* an empty first line, a tag line second
LContent == <<"\n", "/", "/", " ", "+", "l", "a", "t", "e", "\n">>

\* "+x" on a first line that is no tag line
PContent == <<"#", " ", "+", "x", "\n">>

\* "//+a ++b1 + c+d_2 +-e", no newline at the end
TContent ==
    <<"/", "/", "+", "a", " ", "+", "+", "b", "1", " ", "+", " ",
      "c", "+", "d", "_", "2", " ", "+", "-", "e">>

\* an unreadable note that is listed before the others
AMd == JoinPath(NotesDir, <<"a", ".", "m", "d">>)

\* a directory whose name ends in ".md"
DirMd == JoinPath(NotesDir, <<"z", ".", "m", "d">>)

\* a note inside the subdirectory d
NestedMd == JoinPath(SubDir, <<"k", ".", "m", "d">>)

EntryPool ==
    (FooMd :> RegularFile(FooContent)) @@ (BMd :> RegularFile(BContent))
    @@ (UpperMd :> RegularFile(UpperContent)) @@ (UMd :> UnreadableFile)
    @@ (HiddenMd :> RegularFile(FooContent)) @@ (SubDir :> Directory)
    @@ (XTxt :> RegularFile(<<"x">>)) @@ (EMd :> RegularFile(<<>>))
    @@ (LMd :> RegularFile(LContent)) @@ (PMd :> RegularFile(PContent))
    @@ (TMd :> RegularFile(TContent)) @@ (AMd :> UnreadableFile)
    @@ (DirMd :> Directory) @@ (NestedMd :> RegularFile(FooContent))

\* a file exists only inside a directory that exists
ScanDirs ==
    {Root, Root @@ (NotesDir :> UnlistableDirectory)}
    \cup {Root @@ (NotesDir :> Directory) @@ [p \in S |-> EntryPool[p]] :
            S \in {T \in SUBSET DOMAIN EntryPool :
                      NestedMd \in T => SubDir \in T}}

ScanInit ==
    /\ pc = "checkdir"
    /\ exitCode = -1
    /\ fs \in ScanDirs
    /\ files = <<>>
    /\ list = NewList
    /\ mode = modeList
    /\ choice = <<>>
    /\ quitting = FALSE
    /\ newNoteTags = <<>>
    /\ textInput = <<>>
    /\ tagInput = <<>>
    /\ msg = NoMsg
    /\ typed = 0
    /\ editor = <<>>
    /\ fileExists = FALSE
    /\ launched = <<>>

ScanNext ==
    \/ MainCheckDir
    \/ MainScan

ScanSpec == ScanInit /\ [][ScanNext]_vars

\* the places of a line where a "+" is followed by a word character
TagStarts(line) ==
    {i \in 1..Len(line) - 1 : line[i] = "+" /\ IsWordChar(line[i + 1])}

\* the last place of the run of word characters that follows place i
RunEnd(line, i) ==
    CHOOSE j \in i + 1..Len(line) :
        /\ \A k \in i + 1..j : IsWordChar(line[k])
        /\ j = Len(line) \/ ~IsWordChar(line[j + 1])

\* the n-th smallest element of a finite set of numbers
NthOf(S, n) == CHOOSE i \in S : Cardinality({j \in S : j < i}) = n - 1

\* the runs "+word" of a line, from left to right, each with its "+"
PlusRuns(line) ==
    [n \in 1..Cardinality(TagStarts(line)) |->
        SubSeq(line, NthOf(TagStarts(line), n),
               RunEnd(line, NthOf(TagStarts(line), n)))]

\* the tokens a first line stands for: none without the marker "//"
TokensOfLine(line) ==
    IF HasPrefix(line, TagMarker) THEN PlusRuns(line) ELSE <<>>

\* the first line of a catalog entry's file
FirstLineOf(item) == FirstLine(fs[JoinPath(NotesDir, item.filename)].content)

ReadableEntries ==
    {k \in 1..Len(files) :
        fs[JoinPath(NotesDir, files[k].filename)].canOpen}

\* C18 as stated: the tags of every readable catalog entry are the runs
\* "+word" of its file's first line with the "+" taken off, in order, and
\* none when the line does not begin with "//".
C18_DecodeAsStated ==
    pc = "session" =>
        \A k \in ReadableEntries :
            Fields(files[k].tags) =
                [n \in 1..Len(TokensOfLine(FirstLineOf(files[k]))) |->
                    Tail(TokensOfLine(FirstLineOf(files[k]))[n])]

\* C18 amended: the tags of every readable catalog entry are the runs
\* "+word" of its file's first line, each still with its "+", in order and
\* joined by single spaces, and none when the line does not begin with "//";
\* every token is a "+" followed by at least one word character, so it is
\* neither empty nor holds white space.
C18_Decode ==
    pc = "session" =>
        \A k \in ReadableEntries :
            LET tokens == TokensOfLine(FirstLineOf(files[k]))
            IN  /\ files[k].tags = Join(tokens, <<" ">>)
                /\ Fields(files[k].tags) = tokens
                /\ \A n \in 1..Len(tokens) :
                     /\ Len(tokens[n]) >= 2
                     /\ tokens[n][1] = "+"
                     /\ \A c \in 2..Len(tokens[n]) : IsWordChar(tokens[n][c])

C18_Witness ==
    /\ pc = "session"
    /\ \E k \in ReadableEntries :
         /\ FirstLineOf(files[k]) = FirstLine(UpperContent)
         /\ Fields(files[k].tags) =
              <<<<"+", "g", "o", "l", "a", "n", "g">>,
                <<"+", "h", "o", "w", "t", "o">>>>
    /\ \E k \in ReadableEntries :
         /\ FirstLineOf(files[k]) = FirstLine(PContent)
         /\ files[k].tags = <<>>
    /\ \E k \in ReadableEntries :
         /\ FirstLineOf(files[k]) = TContent
         /\ Fields(files[k].tags) =
              <<<<"+", "a">>, <<"+", "b", "1">>, <<"+", "d", "_", "2">>>>
    /\ \E k \in ReadableEntries : FirstLineOf(files[k]) = <<>>

\* C19: when the tag text of a new note is a non-empty list of words made
\* of word characters only, the tags read back from the written file are
\* those words in the same order, each with the "+" that the tag line gave it.
C19_RoundTrip ==
    LET words == Fields(newNoteTags)
        decoded == Fields(TagsOfFile(fs[TargetPath]))
    IN  (/\ NewNoteWritten
         /\ words # <<>>
         /\ \A i \in 1..Len(words) :
              \A c \in 1..Len(words[i]) : IsWordChar(words[i][c]))
        => /\ Len(decoded) = Len(words)
           /\ \A i \in 1..Len(words) :
                /\ decoded[i] = <<"+">> \o words[i]
                /\ Tail(decoded[i]) = words[i]

C19_Witness ==
    /\ NewNoteWritten
    /\ newNoteTags = <<"1", " ", " ", "a">>
    /\ TagsOfFile(fs[TargetPath]) = <<"+", "1", " ", "+", "a">>

\* sub occurs in s as a run of neighbouring characters, ignoring case
Contains(s, sub) ==
    \E i \in 0..Len(s) - Len(sub) :
        ToLower(SubSeq(s, i + 1, i + Len(sub))) = ToLower(sub)

\* the entries the list shows while a filter text is edited or applied
FilteredEntries == {list.filtered[n] : n \in 1..Len(list.filtered)}

FilterActive == pc = "session" /\ list.filterState # "unfiltered"

\* C20 as stated: the filtered entries are entries of the catalog, and each
\* holds the filter text, ignoring case, as a substring of its title or of
\* one of its tags.
C20_FilterAsStated ==
    FilterActive =>
        \A i \in FilteredEntries :
            /\ i \in 1..Len(files)
            /\ \/ Contains(Title(files[i]), list.filterValue)
               \/ \E t \in 1..Len(Fields(files[i].tags)) :
                    Contains(Fields(files[i].tags)[t], list.filterValue)

\* C20 amended: the filtered entries are exactly the entries of the catalog
\* whose searchable string, the file name with its extension, a space and
\* the tags with their "+", holds the characters of the filter text in order,
\* ignoring case; each is listed once, and every entry whose searchable
\* string holds the filter text as a substring is among them.
C20_Filter ==
    FilterActive =>
        /\ FilteredEntries =
             {i \in 1..Len(files) :
                FuzzyMatch(list.filterValue,
                           files[i].filename \o <<" ">> \o files[i].tags)}
        /\ Len(list.filtered) = Cardinality(FilteredEntries)
        /\ \A i \in 1..Len(files) :
             Contains(files[i].filename \o <<" ">> \o files[i].tags,
                      list.filterValue) => i \in FilteredEntries

C20_Witness ==
    /\ FilterActive
    /\ list.filterValue = <<"m", "d">>
    /\ \E i \in FilteredEntries :
         /\ files[i].filename = Foo \o DotMd
         /\ files[i].tags = <<"+", "w", "o", "r", "k">>
    /\ Len(list.filtered) = Len(files)

\* the names directly inside the notes directory that stand for notes: no
\* directory, no leading ".", the last three characters ".md" in any case
NoteNames ==
    {Base(p) : p \in {q \in DOMAIN fs :
        /\ q # <<>>
        /\ Dir(q) = NotesDir
        /\ ~fs[q].isDir
        /\ Base(q)[1] # "."
        /\ Len(Base(q)) >= 3
        /\ ToLower(SubSeq(Base(q), Len(Base(q)) - 2, Len(Base(q)))) = DotMd}}

\* C21: the catalog holds one entry for each name of the notes directory
\* that stands for a note and no other entry, in the order in which the
\* directory is listed (by name), nothing from inside a subdirectory; a
\* directory without such a name gives the empty catalog.
C21_ScanEntries ==
    pc = "session" =>
        /\ {files[k].filename : k \in 1..Len(files)} = NoteNames
        /\ Len(files) = Cardinality(NoteNames)
        /\ \A k \in 1..Len(files) - 1 :
             StringLess(files[k].filename, files[k + 1].filename)
        /\ NoteNames = {} => files = <<>>

C21_Witness ==
    /\ pc = "session"
    /\ DOMAIN EntryPool \subseteq DOMAIN fs
    /\ [k \in 1..Len(files) |-> files[k].filename] =
         << <<"C", ".", "M", "D">>, <<"a", ".", "m", "d">>,
            <<"b", ".", "m", "d">>, <<"e", ".", "m", "d">>,
            <<"f", "o", "o", ".", "m", "d">>, <<"l", ".", "m", "d">>,
            <<"p", ".", "m", "d">>, <<"t", ".", "m", "d">>,
            <<"u", ".", "m", "d">> >>

\* C22: a note that cannot be opened is in the catalog all the same, with no
\* tags, and so is every note listed after it; the scan fails only when the
\* notes directory cannot be listed, and then the process exits with status 1
\* with no catalog and no session.
C22_ScanErrors ==
    [][pc = "scan" =>
         IF NotesDir \in DOMAIN fs /\ fs[NotesDir].isDir
            /\ fs[NotesDir].canOpen
         THEN /\ pc' = "session"
              /\ \A n \in NoteNames :
                   \E k \in 1..Len(files') :
                      /\ files'[k].filename = n
                      /\ ~fs[JoinPath(NotesDir, n)].canOpen =>
                            files'[k].tags = <<>>
         ELSE /\ pc' = "exit"
              /\ exitCode' = 1
              /\ files' = <<>>
              /\ msg' = NoMsg]_vars

C22_Witness ==
    /\ pc = "session"
    /\ Len(files) = 3
    /\ files[1] = [filename |-> <<"a", ".", "m", "d">>, tags |-> <<>>]
    /\ files[2].tags = <<"+", "w", "o", "r", "k">>
    /\ files[3] = [filename |-> <<"u", ".", "m", "d">>, tags |-> <<>>]

\* the first place from i on where sub starts in s, 0 when there is none
RECURSIVE IndexFrom(_, _, _)
IndexFrom(s, sub, i) ==
    IF i + Len(sub) - 1 > Len(s) THEN 0
    ELSE IF SubSeq(s, i, i + Len(sub) - 1) = sub THEN i
    ELSE IndexFrom(s, sub, i + 1)

\* s with every occurrence of old replaced by new, from left to right
RECURSIVE ReplaceAll(_, _, _)
ReplaceAll(s, old, new) ==
    LET i == IndexFrom(s, old, 1)
    IN  IF i = 0 THEN s
        ELSE SubSeq(s, 1, i - 1) \o new
             \o ReplaceAll(SubSeq(s, i + Len(old), Len(s)), old, new)

\* the form YYYY-MM-DD
IsDateForm(d) ==
    /\ Len(d) = 10
    /\ \A i \in {1, 2, 3, 4, 6, 7, 9, 10} : d[i] \in Digits
    /\ d[5] = "-" /\ d[8] = "-"

PercentT == <<"%", "t">>

\* C23: when a filename that holds "%t" is confirmed, the stored file name is
\* the normalised filename with every "%t" replaced by one date of the form
\* YYYY-MM-DD (the date is read off the place of the first "%t").
C23_DateInFilename ==
    [][(/\ pc = "session" /\ mode = modeInput /\ msg' = Key("enter")
        /\ IndexFrom(textInput, PercentT, 1) # 0) =>
          LET i == IndexFrom(textInput, PercentT, 1)
              date == SubSeq(choice', i, i + 9)
          IN  /\ mode' = modeTagInput
              /\ Len(choice') >= i + 9
              /\ IsDateForm(date)
              /\ choice' = NormalizeFilename(
                               ReplaceAll(textInput, PercentT, date))]_vars

\* p.Run has not returned yet: Update can still be called
SessionRunning == pc \in {"session", "result"}

\* main is past p.Run (line 1066 and after)
HandoffBegun == pc \in {"stat", "create", "write", "exec", "exit"}

\* C24: while the session can still handle a message nothing is written to
\* the file system and no editor is started; the file system changes only in
\* the directory check before the session and in openInEditor after it; and
\* once main is past the session no message is handled and the session's
\* state stays as it ended.
C24_TwoPhases ==
    /\ [][SessionRunning =>
            /\ fs' = fs
            /\ launched' = launched]_vars
    /\ [][(fs' # fs \/ launched' # launched) =>
            \/ pc = "checkdir" /\ launched' = launched
            \/ pc \in {"create", "write", "exec"} /\ SessionOver]_vars
    /\ [][HandoffBegun =>
            /\ HandoffBegun'
            /\ msg' = msg
            /\ sessionVars' = sessionVars]_vars

C24_Witness ==
    /\ pc = "exit"
    /\ ResultCreated
    /\ ~fileExists
    /\ launched = <<EditorProgram, TargetPath>>
    /\ TargetPath \in DOMAIN fs
    /\ fs[TargetPath].content # <<>>

\* C25: a tea.WindowSizeMsg handled in any mode leaves the mode, the stored
\* file name, both text inputs, the stored tag text and the quitting flag as
\* they were, and does not end the session.
C25_ResizeChangesNothing ==
    [][(pc = "session" /\ msg' = Key("resize")) =>
         /\ pc' = "session"
         /\ mode' = mode
         /\ choice' = choice
         /\ textInput' = textInput
         /\ tagInput' = tagInput
         /\ newNoteTags' = newNoteTags
         /\ quitting' = quitting]_vars

C25_Witness ==
    /\ pc = "session"
    /\ msg = Key("resize")
    /\ mode = modeTagInput
    /\ textInput = Meeting
    /\ choice = Meeting \o DotMd
    /\ tagInput = TodoUrgent

\* C27: the title of every catalog entry is its file name without the last
\* three characters, the extension in whatever case the scan accepted it, so
\* that no title ends in ".md" in any case.
C27_TitleWithoutExtension ==
    pc = "session" =>
        \A k \in 1..Len(files) :
            /\ Title(files[k]) =
                 SubSeq(files[k].filename, 1, Len(files[k].filename) - 3)
            /\ ~HasSuffix(ToLower(Title(files[k])), DotMd)

\* C28: when main comes to open a chosen or new note and EDITOR is not set,
\* the process exits with status 1 without looking at, creating or writing
\* any file and without starting anything; the setting is not read, and the
\* process does not fail, while the session runs, and nothing is written
\* before the handoff.
C28_EditorNotConfigured ==
    /\ [][(pc = "result" /\ choice # <<>> /\ editor' = <<>>) =>
            /\ pc' = "exit"
            /\ exitCode' = 1
            /\ fs' = fs
            /\ fileExists' = fileExists
            /\ launched' = launched]_vars
    /\ [][pc = "session" =>
            /\ editor' = editor
            /\ exitCode' = exitCode
            /\ fs' = fs
            /\ pc' \in {"session", "result"}]_vars

C28_Witness ==
    /\ pc = "exit"
    /\ exitCode = 1
    /\ editor = <<>>
    /\ launched = <<>>
    /\ ResultCreated
    /\ choice = Meeting \o DotMd
    /\ TargetPath \notin DOMAIN fs

\* the entries the next scan of the notes directory returns with the name
\* stored by the session
RescannedEntries ==
    {k \in 1..Len(findMarkdownFiles(fs, NotesDir)) :
        findMarkdownFiles(fs, NotesDir)[k].filename = choice}

\* every word of the tag text is made of word characters only
BareTagWords ==
    \A i \in 1..Len(Fields(newNoteTags)) :
        \A c \in 1..Len(Fields(newNoteTags)[i]) :
            IsWordChar(Fields(newNoteTags)[i][c])

\* C30: after a new note has been written, the next scan of the notes
\* directory returns an entry for it; its tags are the words of the tag text
\* in order (each with the "+" of the tag line) when these are bare words,
\* and none when the tag text is empty.
C30_CreatedNoteIsScanned ==
    NewNoteWritten =>
        /\ RescannedEntries # {}
        /\ \A k \in RescannedEntries :
             LET tags == Fields(findMarkdownFiles(fs, NotesDir)[k].tags)
             IN  /\ newNoteTags = <<>> => tags = <<>>
                 /\ BareTagWords =>
                      tags = [i \in 1..Len(Fields(newNoteTags)) |->
                                <<"+">> \o Fields(newNoteTags)[i]]

(***************************************************************************)
(* The program in a notes directory that another process uses as well:     *)
(* from the scan up to the os.Create of openInEditor (lines 1005-926) the  *)
(* other process may create the file the session has named, or delete it.  *)
(***************************************************************************)
OtherContent == <<"m", "i", "n", "e", "\n">>

OtherProcessActive ==
    /\ pc \in {"session", "result", "stat", "create"}
    /\ choice # <<>>

OtherProcessCreates ==
    /\ OtherProcessActive
    /\ fullPath \notin DOMAIN fs
    /\ CanCreate(fs, fullPath)
    /\ fs' = fs @@ (fullPath :> RegularFile(OtherContent))
    /\ UNCHANGED <<pc, exitCode, files, sessionVars, msg, typed, handoffVars>>

OtherProcessDeletes ==
    /\ OtherProcessActive
    /\ fullPath \in DOMAIN fs
    /\ ~fs[fullPath].isDir
    /\ fs' = [q \in DOMAIN fs \ {fullPath} |-> fs[q]]
    /\ UNCHANGED <<pc, exitCode, files, sessionVars, msg, typed, handoffVars>>

SharedNext ==
    \/ Next
    \/ OtherProcessCreates
    \/ OtherProcessDeletes

SharedSpec == Init /\ [][SharedNext]_vars

\* a step of main or openInEditor after the session (the other process
\* never changes pc)
HandoffStep == pc \in {"stat", "create", "write", "exec"} /\ pc' # pc

\* C29: no step of the handoff changes the content of a file that exists at
\* the target path with something in it, whenever and by whomever the file
\* was put there.
C29_NoTruncation ==
    [][(/\ HandoffStep
        /\ fullPath \in DOMAIN fs
        /\ fs[fullPath].content # <<>>) =>
          /\ fullPath \in DOMAIN fs'
          /\ fs'[fullPath].content = fs[fullPath].content]_vars

(***************************************************************************)
(* The session as Bubble Tea runs it.  tea.Quit is a command: the event    *)
(* loop hands it to a goroutine, which sends a QuitMsg back to the loop,   *)
(* and p.Run returns when the loop receives that message.  Key messages    *)
(* that the input reader has queued by then (typed ahead, pasted, key      *)
(* repeat) can be received first, and the loop passes them to Update,      *)
(* which has no test for a quit already asked for.  At pc = "result" the   *)
(* quit is asked for and not yet received: every handler can still run,    *)
(* and MainResult is the loop receiving the QuitMsg.                       *)
(***************************************************************************)
LateListQuit == ListQuitAt("result")

LateListEnter == ListEnterAt("result")

LateListNewNote == ListNewNoteAt("result")

LateListResize == ListResizeAt("result")

LateListOther == ListOtherAt("result")

LateInputEsc == InputEscAt("result")

LateInputEnter == InputEnterAt("result")

LateInputOther == InputOtherAt("result")

LateTagEsc == TagEscAt("result")

LateTagEnter == TagEnterAt("result")

LateTagOther == TagOtherAt("result")

RaceNext ==
    \/ Next
    \/ LateListQuit
    \/ LateListEnter
    \/ LateListNewNote
    \/ LateListResize
    \/ LateListOther
    \/ LateInputEsc
    \/ LateInputEnter
    \/ LateInputOther
    \/ LateTagEsc
    \/ LateTagEnter
    \/ LateTagOther

RaceSpec == Init /\ [][RaceNext]_vars

\* C26: once a handler has returned tea.Quit, the result main will read, the
\* stored file name and the stored tag text (and with them whether anything
\* is opened at all), is not changed by anything the session still does.
C26_ResultImmutable ==
    [][(pc = "result" /\ pc' = "result") =>
         /\ choice' = choice
         /\ newNoteTags' = newNoteTags]_vars

====
